---- MODULE Spec2Model ----
(***************************************************************************)
(* Model of dashboard.py, the Streamlit salary dashboard.                  *)
(*                                                                         *)
(* The script is executed top to bottom on page load and again after       *)
(* every widget interaction.  One run is modelled as a chain of steps, one *)
(* per top-level statement group of the script, tracked by pc.  The only   *)
(* state surviving a rerun is the CSV file on disk and the widget values   *)
(* kept by the Streamlit session.                                          *)
(*                                                                         *)
(* A DataFrame is a record [columns, index, rows]: the ordered column      *)
(* names, the row labels (pandas keeps the labels of the source frame in   *)
(* a boolean selection) and the rows, each a function from column name to  *)
(* cell value.  A missing cell is NaN (Series.map, pd.cut) or None         *)
(* (iso2_to_iso3); pandas treats both as null.                             *)
(***************************************************************************)
EXTENDS Integers, Sequences, FiniteSets, TLC

VARIABLES
    csv_file,             \* rows of DataScience_salaries_2025.csv
    session,              \* widget values held by the Streamlit session
    edits,                \* widget interactions the user still makes
    pc,                   \* position of the running script
    df,                   \* normalized table
    exp_filter,           \* sidebar selections read by the current run
    size_filter,
    remote_filter,
    country_filter,
    year_filter,
    df_filtered,          \* filtered copy
    summary,              \* the three formatted summary lines
    mean_salary_year,
    mean_salary_company,
    mean_salary_country,
    csv                   \* text handed to the download button

vars == <<csv_file, session, edits, pc, df, exp_filter, size_filter,
          remote_filter, country_filter, year_filter, df_filtered, summary,
          mean_salary_year, mean_salary_company, mean_salary_country, csv>>

(***************************************************************************)
(* Bounds of the explored inputs.                                          *)
(***************************************************************************)
MaxRows == 2          \* rows of the CSV file, filter, bucket and country data sets
MaxCodeRows == 1      \* rows of the CSV file, raw-code data sets
MaxYearRows == 3      \* rows of the CSV file, year/salary data sets
MaxEdits == 1         \* widget interactions per session

(***************************************************************************)
(* Null values and generic helpers.                                        *)
(***************************************************************************)
NaN == "<NaN>"
None == "<None>"
IsNull(v) == v \in {NaN, None}

Range(s) == {s[i] : i \in DOMAIN s}

RECURSIVE SeqSum(_)
SeqSum(s) == IF s = <<>> THEN 0 ELSE Head(s) + SeqSum(Tail(s))

SetMin(S) == CHOOSE m \in S : \A x \in S : m <= x
SetMax(S) == CHOOSE m \in S : \A x \in S : x <= m

RECURSIVE Gcd(_, _)
Gcd(a, b) == IF b = 0 THEN a ELSE Gcd(b, a % b)

(***************************************************************************)
(* DataFrame primitives.                                                   *)
(***************************************************************************)
NoFrame == [columns |-> <<>>, index |-> <<>>, rows |-> <<>>]

Column(frame, col) == [i \in DOMAIN frame.rows |-> frame.rows[i][col]]

\* Series.unique(): the distinct values of a column, nulls included.  The
\* order of first appearance is dropped: the selections are only used as sets.
Unique(frame, col) == Range(Column(frame, col))

\* frame[col] = values: adds the column (or overwrites it), rows unchanged.
AssignColumn(frame, col, values) ==
    [columns |-> IF col \in Range(frame.columns) THEN frame.columns
                 ELSE Append(frame.columns, col),
     index   |-> frame.index,
     rows    |-> [i \in DOMAIN frame.rows |->
                     [c \in (DOMAIN frame.rows[i]) \cup {col} |->
                         IF c = col THEN values[i] ELSE frame.rows[i][c]]]]

\* frame[mask]: the rows whose mask is true, in order, keeping their labels.
RECURSIVE Kept(_, _)
Kept(mask, n) ==
    IF n = 0 THEN <<>>
    ELSE IF mask[n] THEN Append(Kept(mask, n - 1), n) ELSE Kept(mask, n - 1)

BooleanSelect(frame, mask) ==
    LET kept == Kept(mask, Len(frame.rows))
    IN  [columns |-> frame.columns,
         index   |-> [k \in DOMAIN kept |-> frame.index[kept[k]]],
         rows    |-> [k \in DOMAIN kept |-> frame.rows[kept[k]]]]

(***************************************************************************)
(* Loading and normalization, lines 14-28.                                 *)
(***************************************************************************)
CsvColumns == <<"work_year", "experience_level", "employment_type",
                "salary_in_usd", "employee_residence", "remote_ratio",
                "company_size">>

\* pd.read_csv: the columns of the file, a RangeIndex starting at 0.
ReadCsv(file) ==
    [columns |-> CsvColumns,
     index   |-> [i \in DOMAIN file |-> i - 1],
     rows    |-> file]

ExperienceMap == [EN |-> "Junior", MI |-> "Mid", SE |-> "Senior", EX |-> "Executive"]
CompanySizeMap == [S |-> "Small", M |-> "Medium", L |-> "Large"]
EmploymentMap == [FT |-> "Full-time", PT |-> "Part-time", CT |-> "Contract",
                  FL |-> "Freelance"]

\* Variant: an unknown code is kept as it is (Series.replace).
MapValueKeepUnknown(mapping, v) == IF v \in DOMAIN mapping THEN mapping[v] ELSE v

\* Series.map(dict): a value that is no key of the dict becomes NaN.
MapValue(mapping, v) == IF v \in DOMAIN mapping THEN mapping[v] ELSE NaN

MapColumn(frame, col, mapping) ==
    AssignColumn(frame, col,
                 [i \in DOMAIN frame.rows |-> MapValue(mapping, frame.rows[i][col])])

\* pycountry.countries: the alpha-2 codes the lookup knows, cut down to the
\* codes of the explored data sets.
Alpha3 == [FR |-> "FRA", US |-> "USA"]

\* countries.get returns None for an unknown code, reading .alpha_3 of it
\* raises, and the bare except turns that into None.
iso2_to_iso3(alpha2) == IF alpha2 \in DOMAIN Alpha3 THEN Alpha3[alpha2] ELSE None

\* Lines 17-28.  remote_ratio is read as an integer column, on which
\* astype(int) changes nothing.
Normalize(frame) ==
    LET a == MapColumn(frame, "experience_level", ExperienceMap)
        b == MapColumn(a, "company_size", CompanySizeMap)
        c == MapColumn(b, "employment_type", EmploymentMap)
    IN  AssignColumn(c, "country_iso3",
                     [i \in DOMAIN c.rows |-> iso2_to_iso3(c.rows[i].employee_residence)])

(***************************************************************************)
(* Filtering, lines 53-60.                                                 *)
(***************************************************************************)
\* Series.isin(values): membership; a null cell matches a null among values.
IsIn(v, values) == v \in values

\* Variant: the year predicate is left out.
RowMaskNoYear(row, exps, sizes, remote, countries, years) ==
    /\ IsIn(row.experience_level, exps)
    /\ IsIn(row.company_size, sizes)
    /\ row.remote_ratio >= remote[1]
    /\ row.remote_ratio <= remote[2]
    /\ IsIn(row.employee_residence, countries)

\* Variant: a NaN label is in no selection (NaN compared by ==).
RowMaskNaNNeverIn(row, exps, sizes, remote, countries, years) ==
    /\ row.experience_level # NaN /\ IsIn(row.experience_level, exps)
    /\ row.company_size # NaN /\ IsIn(row.company_size, sizes)
    /\ row.remote_ratio >= remote[1]
    /\ row.remote_ratio <= remote[2]
    /\ IsIn(row.employee_residence, countries)
    /\ IsIn(row.work_year, years)

\* Variant: an empty selection filters nothing.
RowMaskEmptyMeansAll(row, exps, sizes, remote, countries, years) ==
    /\ exps = {} \/ IsIn(row.experience_level, exps)
    /\ sizes = {} \/ IsIn(row.company_size, sizes)
    /\ row.remote_ratio >= remote[1]
    /\ row.remote_ratio <= remote[2]
    /\ countries = {} \/ IsIn(row.employee_residence, countries)
    /\ years = {} \/ IsIn(row.work_year, years)

RowMask(row, exps, sizes, remote, countries, years) ==
    /\ IsIn(row.experience_level, exps)
    /\ IsIn(row.company_size, sizes)
    /\ row.remote_ratio >= remote[1]
    /\ row.remote_ratio <= remote[2]
    /\ IsIn(row.employee_residence, countries)
    /\ IsIn(row.work_year, years)

\* df[...].copy(): a new frame, sharing nothing with df.
FilterFrame(frame, exps, sizes, remote, countries, years) ==
    BooleanSelect(frame,
        [i \in DOMAIN frame.rows |->
            RowMask(frame.rows[i], exps, sizes, remote, countries, years)])

(***************************************************************************)
(* Numbers.  A float result is the exact fraction num/den in lowest terms, *)
(* or NaN.                                                                 *)
(***************************************************************************)
NaNFloat == [isnan |-> TRUE, num |-> 0, den |-> 1]
Float(n) == [isnan |-> FALSE, num |-> n, den |-> 1]
Fraction(n, d) == [isnan |-> FALSE, num |-> n \div Gcd(n, d), den |-> d \div Gcd(n, d)]

\* Series.mean(), .min(), .max(): NaN on an empty series, no exception.
SeriesMean(s) == IF Len(s) = 0 THEN NaNFloat ELSE Fraction(SeqSum(s), Len(s))
SeriesMin(s) == IF Len(s) = 0 THEN NaNFloat ELSE Float(SetMin(Range(s)))
SeriesMax(s) == IF Len(s) = 0 THEN NaNFloat ELSE Float(SetMax(Range(s)))

\* Rounding of the format spec .0f: to nearest, ties to even.
RoundHalfEven(x) ==
    LET q == x.num \div x.den
        r == x.num % x.den
    IN  IF 2 * r < x.den THEN q
        ELSE IF 2 * r > x.den THEN q + 1
        ELSE IF q % 2 = 0 THEN q ELSE q + 1

Pad3(n) == IF n < 10 THEN "00" \o ToString(n)
           ELSE IF n < 100 THEN "0" \o ToString(n) ELSE ToString(n)

RECURSIVE Thousands(_)
Thousands(n) == IF n < 1000 THEN ToString(n)
                ELSE Thousands(n \div 1000) \o "," \o Pad3(n % 1000)

\* f"${x:,.0f}": a NaN formats as the text nan.
FormatUsd(x) == IF x.isnan THEN "$nan" ELSE "$" \o Thousands(RoundHalfEven(x))

(***************************************************************************)
(* Group-by means, lines 77, 96, 116.                                      *)
(***************************************************************************)
NumericColumns == {"work_year", "salary_in_usd", "remote_ratio"}

IsNullCell(col, v) == col \notin NumericColumns /\ IsNull(v)

\* Variant: dropna=False, a null key makes a group of its own.
GroupKeysKeepNull(frame, col) == Unique(frame, col)

\* groupby(col): one group per distinct key; rows with a null key are
\* dropped (dropna defaults to True).
GroupKeys(frame, col) == {v \in Unique(frame, col) : ~IsNullCell(col, v)}

GroupRows(frame, col, key) ==
    BooleanSelect(frame, [i \in DOMAIN frame.rows |-> frame.rows[i][col] = key])

\* groupby(col)['salary_in_usd'].mean()
GroupMean(frame, col) ==
    [k \in GroupKeys(frame, col) |->
        SeriesMean(Column(GroupRows(frame, col, k), "salary_in_usd"))]

\* Variant: the keys in descending order.
RECURSIVE SortedSeqDescending(_)
SortedSeqDescending(S) ==
    IF S = {} THEN <<>>
    ELSE <<SetMax(S)>> \o SortedSeqDescending(S \ {SetMax(S)})

\* groupby sorts the group keys ascending.
RECURSIVE SortedSeq(_)
SortedSeq(S) == IF S = {} THEN <<>>
                ELSE <<SetMin(S)>> \o SortedSeq(S \ {SetMin(S)})

\* .reset_index() of the yearly means: rows (work_year, salary_in_usd),
\* in key order.
YearMeanRows(frame) ==
    LET g == GroupMean(frame, "work_year")
        keys == SortedSeq(DOMAIN g)
    IN  [k \in DOMAIN keys |-> [work_year |-> keys[k], salary_in_usd |-> g[keys[k]]]]

\* .reset_index() of the means by a text key.  The rows are kept as a set:
\* the order of text keys is not modelled.
LabelMeanRows(frame, col) ==
    LET g == GroupMean(frame, col)
    IN  {[key |-> k, salary_in_usd |-> g[k]] : k \in DOMAIN g}

(***************************************************************************)
(* Remote bucketing, line 103.                                             *)
(***************************************************************************)
CutBins == <<0, 25, 50, 75, 100>>
CutLabels == <<"0-25", "26-50", "51-75", "76-100">>

\* Variant: include_lowest=True, the first bin is [0, 25].
CutIncludeLowest(x) ==
    LET hit == {i \in DOMAIN CutLabels :
                   /\ x <= CutBins[i + 1]
                   /\ IF i = 1 THEN CutBins[i] <= x ELSE CutBins[i] < x}
    IN  IF hit = {} THEN NaN ELSE CutLabels[CHOOSE i \in hit : TRUE]

\* pd.cut with right=True, include_lowest=False: bin i is (b[i], b[i+1]];
\* a value in no bin is NaN.
Cut(x) ==
    LET hit == {i \in DOMAIN CutLabels : CutBins[i] < x /\ x <= CutBins[i + 1]}
    IN  IF hit = {} THEN NaN ELSE CutLabels[CHOOSE i \in hit : TRUE]

WithRemoteGroup(frame) ==
    AssignColumn(frame, "remote_group",
                 [i \in DOMAIN frame.rows |-> Cut(frame.rows[i].remote_ratio)])

(***************************************************************************)
(* Export, line 131.                                                       *)
(***************************************************************************)
\* A cell as to_csv writes it: a null is the empty text, a number its digits.
CsvCell(col, v) == IF col \in NumericColumns THEN ToString(v)
                   ELSE IF IsNull(v) THEN "" ELSE v

\* to_csv(index=False): the header line, then one line per row, each line
\* kept as its sequence of cells.
ToCsv(frame) ==
    <<frame.columns>> \o
    [i \in DOMAIN frame.rows |->
        [j \in DOMAIN frame.columns |->
            CsvCell(frame.columns[j], frame.rows[i][frame.columns[j]])]]

(***************************************************************************)
(* Explored CSV files.                                                     *)
(***************************************************************************)
RawRow(y, e, t, s, r, c, usd) ==
    [work_year |-> y, experience_level |-> e, employment_type |-> t,
     company_size |-> s, remote_ratio |-> r, employee_residence |-> c,
     salary_in_usd |-> usd]

RECURSIVE SeqsUpTo(_, _)
SeqsUpTo(S, n) ==
    IF n = 0 THEN {<<>>}
    ELSE LET shorter == SeqsUpTo(S, n - 1)
         IN  shorter \cup {Append(t, x) : t \in {u \in shorter : Len(u) = n - 1}, x \in S}

\* The files of 1 to n data rows over the rows S.
Files(S, n) == SeqsUpTo(S, n) \ {<<>>}

BaseRow == RawRow(2020, "EN", "FT", "S", 50, "FR", 100)

\* Rows for the filter: each differs from BaseRow in at most one filtered
\* field or in the salary.  "XX" and "ZZ" are codes no mapping knows.
FilterPool ==
    {BaseRow}
    \cup {[BaseRow EXCEPT !.work_year = 2021]}
    \cup {[BaseRow EXCEPT !.experience_level = e] : e \in {"SE", "XX"}}
    \cup {[BaseRow EXCEPT !.company_size = "XX"]}
    \cup {[BaseRow EXCEPT !.remote_ratio = r] : r \in {0, 100}}
    \cup {[BaseRow EXCEPT !.employee_residence = "ZZ"]}
    \cup {[BaseRow EXCEPT !.salary_in_usd = 1200]}

\* Rows for the code mappings: every raw code of each mapped column.
CodePool ==
    {[BaseRow EXCEPT !.experience_level = e] : e \in {"EN", "MI", "SE", "EX", "XX"}}
    \cup {[BaseRow EXCEPT !.company_size = z] : z \in {"S", "M", "L", "XX"}}
    \cup {[BaseRow EXCEPT !.employment_type = t] : t \in {"FT", "PT", "CT", "FL", "XX"}}

\* Rows for the bucketing: the ratios around every bin edge.
RemotePool ==
    {[BaseRow EXCEPT !.remote_ratio = r] : r \in {0, 1, 25, 26, 50, 51, 75, 76, 100}}

\* Rows for the country means: known and unknown residence and size codes.
CountryPool ==
    {RawRow(2020, "EN", "FT", z, 50, c, usd) :
        z \in {"S", "XX"}, c \in {"FR", "ZZ"}, usd \in {100, 1200}}

\* Rows for the yearly means.
YearPool ==
    {RawRow(y, "EN", "FT", "S", 50, "FR", usd) :
        y \in {2020, 2021}, usd \in {100, 200, 300}}

(***************************************************************************)
(* Streamlit session: the widgets the user has set, and their values.  A   *)
(* widget never set returns its default.                                   *)
(***************************************************************************)
FreshSession ==
    [touched |-> {}, exp |-> {}, size |-> {}, remote |-> <<0, 100>>,
     country |-> {}, year |-> {}]

\* Positions of the two slider handles that are explored.
SliderStops == {0, 50, 100}

Unset == [set |-> FALSE]

StartRun ==
    /\ pc' = "load"
    /\ df' = NoFrame
    /\ exp_filter' = {}
    /\ size_filter' = {}
    /\ remote_filter' = <<0, 100>>
    /\ country_filter' = {}
    /\ year_filter' = {}
    /\ df_filtered' = NoFrame
    /\ summary' = Unset
    /\ mean_salary_year' = <<>>
    /\ mean_salary_company' = {}
    /\ mean_salary_country' = {}
    /\ csv' = <<>>

InitWith(files) ==
    /\ csv_file \in files
    /\ session = FreshSession
    /\ edits = MaxEdits
    /\ pc = "load"
    /\ df = NoFrame
    /\ exp_filter = {}
    /\ size_filter = {}
    /\ remote_filter = <<0, 100>>
    /\ country_filter = {}
    /\ year_filter = {}
    /\ df_filtered = NoFrame
    /\ summary = Unset
    /\ mean_salary_year = <<>>
    /\ mean_salary_company = {}
    /\ mean_salary_country = {}
    /\ csv = <<>>

Init == InitWith(Files(FilterPool, MaxRows))
InitCodes == InitWith(Files(CodePool, MaxCodeRows))
InitRemote == InitWith(Files(RemotePool, MaxRows))
InitCountry == InitWith(Files(CountryPool, MaxRows))
InitYear == InitWith(Files(YearPool, MaxYearRows))

(***************************************************************************)
(* The steps of one run of the script.                                     *)
(***************************************************************************)
\* Lines 14-28.
Load ==
    /\ pc = "load"
    /\ df' = Normalize(ReadCsv(csv_file))
    /\ pc' = "sidebar"
    /\ UNCHANGED <<csv_file, session, edits, exp_filter, size_filter,
                   remote_filter, country_filter, year_filter, df_filtered,
                   summary, mean_salary_year, mean_salary_company,
                   mean_salary_country, csv>>

\* Lines 44-48: each widget returns the user's value, or its default: all
\* the values of the column, the whole range of the slider.
Sidebar ==
    /\ pc = "sidebar"
    /\ exp_filter' = IF "exp" \in session.touched THEN session.exp
                     ELSE Unique(df, "experience_level")
    /\ size_filter' = IF "size" \in session.touched THEN session.size
                      ELSE Unique(df, "company_size")
    /\ remote_filter' = IF "remote" \in session.touched THEN session.remote
                        ELSE <<0, 100>>
    /\ country_filter' = IF "country" \in session.touched THEN session.country
                         ELSE Unique(df, "employee_residence")
    /\ year_filter' = IF "year" \in session.touched THEN session.year
                      ELSE Unique(df, "work_year")
    /\ pc' = "filter"
    /\ UNCHANGED <<csv_file, session, edits, df, df_filtered, summary,
                   mean_salary_year, mean_salary_company, mean_salary_country,
                   csv>>

\* Lines 53-60.
ApplyFilters ==
    /\ pc = "filter"
    /\ df_filtered' = FilterFrame(df, exp_filter, size_filter, remote_filter,
                                  country_filter, year_filter)
    /\ pc' = "summary"
    /\ UNCHANGED <<csv_file, session, edits, df, exp_filter, size_filter,
                   remote_filter, country_filter, year_filter, summary,
                   mean_salary_year, mean_salary_company, mean_salary_country,
                   csv>>

\* Lines 65-68: the three lines are rendered whatever the values are.
Summary ==
    /\ pc = "summary"
    /\ summary' = [set |-> TRUE,
                   mean |-> FormatUsd(SeriesMean(Column(df_filtered, "salary_in_usd"))),
                   min  |-> FormatUsd(SeriesMin(Column(df_filtered, "salary_in_usd"))),
                   max  |-> FormatUsd(SeriesMax(Column(df_filtered, "salary_in_usd")))]
    /\ pc' = "year"
    /\ UNCHANGED <<csv_file, session, edits, df, exp_filter, size_filter,
                   remote_filter, country_filter, year_filter, df_filtered,
                   mean_salary_year, mean_salary_company, mean_salary_country,
                   csv>>

\* Line 77.
MeanSalaryYear ==
    /\ pc = "year"
    /\ mean_salary_year' = YearMeanRows(df_filtered)
    /\ pc' = "company"
    /\ UNCHANGED <<csv_file, session, edits, df, exp_filter, size_filter,
                   remote_filter, country_filter, year_filter, df_filtered,
                   summary, mean_salary_company, mean_salary_country, csv>>

\* Line 96.
MeanSalaryCompany ==
    /\ pc = "company"
    /\ mean_salary_company' = LabelMeanRows(df_filtered, "company_size")
    /\ pc' = "remote"
    /\ UNCHANGED <<csv_file, session, edits, df, exp_filter, size_filter,
                   remote_filter, country_filter, year_filter, df_filtered,
                   summary, mean_salary_year, mean_salary_country, csv>>

\* Variant: the filtered frame shares its data with df (no .copy()), so the
\* new column lands in df as well.
RemoteGroupInPlace ==
    /\ pc = "remote"
    /\ df_filtered' = WithRemoteGroup(df_filtered)
    /\ df' = WithRemoteGroup(df)
    /\ pc' = "country"
    /\ UNCHANGED <<csv_file, session, edits, exp_filter, size_filter,
                   remote_filter, country_filter, year_filter, summary,
                   mean_salary_year, mean_salary_company, mean_salary_country,
                   csv>>

\* Line 103: the column is added to the filtered copy.
RemoteGroup ==
    /\ pc = "remote"
    /\ df_filtered' = WithRemoteGroup(df_filtered)
    /\ pc' = "country"
    /\ UNCHANGED <<csv_file, session, edits, df, exp_filter, size_filter,
                   remote_filter, country_filter, year_filter, summary,
                   mean_salary_year, mean_salary_company, mean_salary_country,
                   csv>>

\* Line 116.
MeanSalaryCountry ==
    /\ pc = "country"
    /\ mean_salary_country' = LabelMeanRows(df_filtered, "country_iso3")
    /\ pc' = "export"
    /\ UNCHANGED <<csv_file, session, edits, df, exp_filter, size_filter,
                   remote_filter, country_filter, year_filter, df_filtered,
                   summary, mean_salary_year, mean_salary_company, csv>>

\* Variant: the export is taken from df.
ExportUnfiltered ==
    /\ pc = "export"
    /\ csv' = ToCsv(df)
    /\ pc' = "done"
    /\ UNCHANGED <<csv_file, session, edits, df, exp_filter, size_filter,
                   remote_filter, country_filter, year_filter, df_filtered,
                   summary, mean_salary_year, mean_salary_company,
                   mean_salary_country>>

\* Lines 131-137.
Export ==
    /\ pc = "export"
    /\ csv' = ToCsv(df_filtered)
    /\ pc' = "done"
    /\ UNCHANGED <<csv_file, session, edits, df, exp_filter, size_filter,
                   remote_filter, country_filter, year_filter, df_filtered,
                   summary, mean_salary_year, mean_salary_company,
                   mean_salary_country>>

(***************************************************************************)
(* Widget interactions: the user sets one widget of the rendered page and  *)
(* Streamlit runs the script again from the top, in a fresh namespace.     *)
(***************************************************************************)
Interact(widget, value) ==
    /\ pc = "done"
    /\ edits > 0
    /\ edits' = edits - 1
    /\ session' = [session EXCEPT !.touched = @ \cup {widget}, ![widget] = value]
    /\ StartRun
    /\ UNCHANGED csv_file

\* Line 44.
EditExperience ==
    \E v \in SUBSET Unique(df, "experience_level") :
        v # exp_filter /\ Interact("exp", v)

\* Line 45.
EditSize ==
    \E v \in SUBSET Unique(df, "company_size") :
        v # size_filter /\ Interact("size", v)

\* Line 46.
EditRemote ==
    \E lo \in SliderStops, hi \in SliderStops :
        lo <= hi /\ <<lo, hi>> # remote_filter /\ Interact("remote", <<lo, hi>>)

\* Line 47.
EditCountry ==
    \E v \in SUBSET Unique(df, "employee_residence") :
        v # country_filter /\ Interact("country", v)

\* Line 48.
EditYear ==
    \E v \in SUBSET Unique(df, "work_year") :
        v # year_filter /\ Interact("year", v)

Next ==
    \/ Load
    \/ Sidebar
    \/ ApplyFilters
    \/ Summary
    \/ MeanSalaryYear
    \/ MeanSalaryCompany
    \/ RemoteGroup
    \/ MeanSalaryCountry
    \/ Export
    \/ EditExperience
    \/ EditSize
    \/ EditRemote
    \/ EditCountry
    \/ EditYear

Spec == Init /\ [][Next]_vars
SpecCodes == InitCodes /\ [][Next]_vars
SpecRemote == InitRemote /\ [][Next]_vars
SpecCountry == InitCountry /\ [][Next]_vars
SpecYear == InitYear /\ [][Next]_vars

(***************************************************************************)
(* Vocabulary of the properties.                                           *)
(***************************************************************************)
\* pc names the step that runs next; Stage orders the steps of a run.
Stage == [load |-> 1, sidebar |-> 2, filter |-> 3, summary |-> 4, year |-> 5,
          company |-> 6, remote |-> 7, country |-> 8, export |-> 9, done |-> 10]

Loaded == Stage[pc] >= 2
Filtered == Stage[pc] >= 4
Bucketed == Stage[pc] >= 8

\* The five predicates of the filter, under the selections of this run.
Satisfies(row) ==
    /\ row.experience_level \in exp_filter
    /\ row.company_size \in size_filter
    /\ remote_filter[1] <= row.remote_ratio
    /\ row.remote_ratio <= remote_filter[2]
    /\ row.employee_residence \in country_filter
    /\ row.work_year \in year_filter

\* The positions of the filtered view whose cell in col is v.
RowsWith(col, v) == {k \in DOMAIN df_filtered.rows : df_filtered.rows[k][col] = v}

RECURSIVE SalarySum(_)
SalarySum(K) ==
    IF K = {} THEN 0
    ELSE LET k == CHOOSE x \in K : TRUE
         IN  df_filtered.rows[k].salary_in_usd + SalarySum(K \ {k})

\* m is the arithmetic mean of salary_in_usd over the filtered rows K.
IsMeanOver(m, K) ==
    /\ K # {}
    /\ ~m.isnan
    /\ m.num * Cardinality(K) = m.den * SalarySum(K)

Blank(v) == IF v \in {NaN, None} THEN "" ELSE v

Bucket(r) == IF r \in 1..25 THEN "0-25"
             ELSE IF r \in 26..50 THEN "26-50"
             ELSE IF r \in 51..75 THEN "51-75"
             ELSE IF r \in 76..100 THEN "76-100" ELSE NaN

(***************************************************************************)
(* C1.  Filter soundness and completeness: every record of df_filtered is  *)
(* a record of df that satisfies all five predicates, and every record of  *)
(* df that satisfies them is in df_filtered exactly once.                  *)
(***************************************************************************)
C1_FilterSoundComplete ==
    Filtered =>
        /\ \A k \in DOMAIN df_filtered.rows :
              /\ Satisfies(df_filtered.rows[k])
              /\ \E i \in DOMAIN df.rows :
                    /\ df.index[i] = df_filtered.index[k]
                    /\ \A c \in Range(df.columns) :
                          df_filtered.rows[k][c] = df.rows[i][c]
        /\ \A i \in DOMAIN df.rows :
              Satisfies(df.rows[i]) =>
                  Cardinality({k \in DOMAIN df_filtered.rows :
                                  df_filtered.index[k] = df.index[i]}) = 1

C1_Witness ==
    /\ Filtered
    /\ session.touched # {}
    /\ Len(df.rows) = 2
    /\ Len(df_filtered.rows) = 1

(***************************************************************************)
(* C2.  Unfiltered default: with every selection equal to all the values   *)
(* of its column (the NaN of unrecognized codes included) and the remote   *)
(* range [0,100], df_filtered has the records of df, in the same order.    *)
(***************************************************************************)
AllSelected ==
    /\ exp_filter = {df.rows[i].experience_level : i \in DOMAIN df.rows}
    /\ size_filter = {df.rows[i].company_size : i \in DOMAIN df.rows}
    /\ remote_filter = <<0, 100>>
    /\ country_filter = {df.rows[i].employee_residence : i \in DOMAIN df.rows}
    /\ year_filter = {df.rows[i].work_year : i \in DOMAIN df.rows}

C2_UnfilteredDefault ==
    (Filtered /\ AllSelected) =>
        /\ df_filtered.index = df.index
        /\ Len(df_filtered.rows) = Len(df.rows)
        /\ \A i \in DOMAIN df.rows : \A c \in Range(df.columns) :
              df_filtered.rows[i][c] = df.rows[i][c]

C2_Witness ==
    /\ Filtered
    /\ AllSelected
    /\ Len(df.rows) = 2
    /\ Len(df_filtered.rows) = 2
    /\ \E i \in DOMAIN df.rows :
          df.rows[i].experience_level = NaN \/ df.rows[i].company_size = NaN

(***************************************************************************)
(* C3.  On an empty filtered view the summary does not show a NaN: the     *)
(* three lines carry no "nan".                                             *)
(***************************************************************************)
C3_EmptySummaryDetectable ==
    (summary.set /\ Len(df_filtered.rows) = 0) =>
        /\ summary.mean # "$nan"
        /\ summary.min # "$nan"
        /\ summary.max # "$nan"

(***************************************************************************)
(* C4.  An empty selection in any multiselect gives an empty filtered      *)
(* view, whatever the other selections are, and the filter step completes. *)
(***************************************************************************)
AnEmptySelection ==
    \/ exp_filter = {}
    \/ size_filter = {}
    \/ country_filter = {}
    \/ year_filter = {}

C4_EmptySelectionEmptyView ==
    /\ (Filtered /\ AnEmptySelection) =>
          /\ df_filtered.rows = <<>>
          /\ df_filtered.index = <<>>
          /\ df_filtered.columns # <<>>
    /\ pc = "filter" => ENABLED ApplyFilters

C4_Witness ==
    /\ Filtered
    /\ exp_filter = {}
    /\ size_filter # {} /\ country_filter # {} /\ year_filter # {}
    /\ remote_filter = <<0, 100>>
    /\ Len(df.rows) = 2
    /\ df_filtered.rows = <<>>

(***************************************************************************)
(* C5.  Remote bucketing: ratio 0 has no bucket, 1..25 is "0-25", 26..50   *)
(* is "26-50", 51..75 is "51-75", 76..100 is "76-100"; each record has one *)
(* remote_group cell.                                                      *)
(***************************************************************************)
C5_RemoteBuckets ==
    Bucketed =>
        /\ Cardinality({j \in DOMAIN df_filtered.columns :
                           df_filtered.columns[j] = "remote_group"}) = 1
        /\ \A k \in DOMAIN df_filtered.rows :
              LET r == df_filtered.rows[k].remote_ratio
                  g == df_filtered.rows[k].remote_group
              IN  /\ r = 0 => g = NaN
                  /\ r \in 1..25 => g = "0-25"
                  /\ r \in 26..50 => g = "26-50"
                  /\ r \in 51..75 => g = "51-75"
                  /\ r \in 76..100 => g = "76-100"

C5_Witness ==
    /\ Bucketed
    /\ \E k \in DOMAIN df_filtered.rows :
          /\ df_filtered.rows[k].remote_ratio = 0
          /\ df_filtered.rows[k].remote_group = NaN
    /\ \E k \in DOMAIN df_filtered.rows :
          /\ df_filtered.rows[k].remote_ratio = 25
          /\ df_filtered.rows[k].remote_group = "0-25"

(***************************************************************************)
(* C6.  Country aggregation.  The groups of the country means are exactly  *)
(* the present country_iso3 codes of the filtered view, each the mean over *)
(* the records of that code, so a record without a code is in no group.    *)
(* Such a record stays in the filtered view and is counted in the summary, *)
(* the yearly mean and the export, and in the company-size mean of its     *)
(* company_size label.                                                     *)
(***************************************************************************)
C6_CountryGroups ==
    LET present == {df_filtered.rows[k].country_iso3 :
                       k \in DOMAIN df_filtered.rows} \ {NaN, None}
    IN  /\ {g.key : g \in mean_salary_country} = present
        /\ Cardinality(mean_salary_country) = Cardinality(present)
        /\ \A g \in mean_salary_country :
              IsMeanOver(g.salary_in_usd, RowsWith("country_iso3", g.key))

C6_KeptInView ==
    \A i \in DOMAIN df.rows :
        (Satisfies(df.rows[i]) /\ df.rows[i].country_iso3 \in {NaN, None}) =>
            \E k \in DOMAIN df_filtered.rows : df_filtered.index[k] = df.index[i]

C6_InSummary ==
    LET all == DOMAIN df_filtered.rows
        usd == {df_filtered.rows[k].salary_in_usd : k \in all}
    IN  /\ summary.mean = FormatUsd(Fraction(SalarySum(all), Cardinality(all)))
        /\ summary.min = FormatUsd(Float(CHOOSE m \in usd : \A x \in usd : m <= x))
        /\ summary.max = FormatUsd(Float(CHOOSE m \in usd : \A x \in usd : x <= m))

C6_InYearMean(k) ==
    \E j \in DOMAIN mean_salary_year :
        /\ mean_salary_year[j].work_year = df_filtered.rows[k].work_year
        /\ IsMeanOver(mean_salary_year[j].salary_in_usd,
                      RowsWith("work_year", df_filtered.rows[k].work_year))

C6_InCompanyMean(k) ==
    \E g \in mean_salary_company :
        /\ g.key = df_filtered.rows[k].company_size
        /\ IsMeanOver(g.salary_in_usd,
                      RowsWith("company_size", df_filtered.rows[k].company_size))

C6_InExport(k) ==
    /\ Len(csv) = 1 + Len(df_filtered.rows)
    /\ csv[k + 1][5] = df_filtered.rows[k].employee_residence
    /\ csv[k + 1][4] = ToString(df_filtered.rows[k].salary_in_usd)
    /\ csv[k + 1][8] = ""

\* The claim as written: the record is counted in the company-size mean
\* whatever its company_size is.
C6_AsWritten ==
    pc = "done" =>
        /\ C6_CountryGroups
        /\ C6_KeptInView
        /\ \A k \in DOMAIN df_filtered.rows :
              df_filtered.rows[k].country_iso3 \in {NaN, None} =>
                  /\ C6_InSummary
                  /\ C6_InYearMean(k)
                  /\ C6_InCompanyMean(k)
                  /\ C6_InExport(k)

\* C6 as amended: the record is counted in the company-size mean when its
\* company_size label is present, and is in no company-size group when it
\* is absent.
C6_CountryAggregation ==
    pc = "done" =>
        /\ C6_CountryGroups
        /\ C6_KeptInView
        /\ \A k \in DOMAIN df_filtered.rows :
              df_filtered.rows[k].country_iso3 \in {NaN, None} =>
                  /\ C6_InSummary
                  /\ C6_InYearMean(k)
                  /\ df_filtered.rows[k].company_size # NaN => C6_InCompanyMean(k)
                  /\ df_filtered.rows[k].company_size = NaN =>
                        \A g \in mean_salary_company : g.key # NaN
                  /\ C6_InExport(k)

C6_Witness ==
    /\ pc = "done"
    /\ \E k, n \in DOMAIN df_filtered.rows :
          /\ df_filtered.rows[k].country_iso3 = None
          /\ df_filtered.rows[k].company_size = "Small"
          /\ df_filtered.rows[n].country_iso3 = "FRA"
          /\ df_filtered.rows[n].salary_in_usd # df_filtered.rows[k].salary_in_usd

(***************************************************************************)
(* C7.  The normalizer maps every raw code: the documented codes to their  *)
(* labels, any other code to NaN, and keeps the number of records.         *)
(***************************************************************************)
C7_NormalizerTotal ==
    Loaded =>
        /\ Len(df.rows) = Len(csv_file)
        /\ \A i \in DOMAIN csv_file :
              LET raw == csv_file[i]
                  row == df.rows[i]
              IN  /\ raw.experience_level = "EN" => row.experience_level = "Junior"
                  /\ raw.experience_level = "MI" => row.experience_level = "Mid"
                  /\ raw.experience_level = "SE" => row.experience_level = "Senior"
                  /\ raw.experience_level = "EX" => row.experience_level = "Executive"
                  /\ raw.experience_level \notin {"EN", "MI", "SE", "EX"} =>
                        row.experience_level = NaN
                  /\ raw.company_size = "S" => row.company_size = "Small"
                  /\ raw.company_size = "M" => row.company_size = "Medium"
                  /\ raw.company_size = "L" => row.company_size = "Large"
                  /\ raw.company_size \notin {"S", "M", "L"} => row.company_size = NaN
                  /\ raw.employment_type = "FT" => row.employment_type = "Full-time"
                  /\ raw.employment_type = "PT" => row.employment_type = "Part-time"
                  /\ raw.employment_type = "CT" => row.employment_type = "Contract"
                  /\ raw.employment_type = "FL" => row.employment_type = "Freelance"
                  /\ raw.employment_type \notin {"FT", "PT", "CT", "FL"} =>
                        row.employment_type = NaN

C7_Witness ==
    /\ Loaded
    /\ \E i \in DOMAIN csv_file :
          /\ csv_file[i].experience_level = "XX"
          /\ df.rows[i].experience_level = NaN
          /\ df.rows[i].company_size = "Small"
          /\ df.rows[i].employment_type = "Full-time"

(***************************************************************************)
(* C8.  The normalized table is read-only: once loaded, df is the          *)
(* normalization of the file at every later step of every run, without a   *)
(* remote_group column, and the filtered view holds exactly the records of *)
(* df that satisfy the selections the session holds now.                   *)
(***************************************************************************)
CurrentSelection(widget, default) ==
    IF widget \in session.touched THEN session[widget] ELSE default

C8_SatisfiesCurrent(row) ==
    /\ row.experience_level \in
          CurrentSelection("exp", {r.experience_level : r \in Range(df.rows)})
    /\ row.company_size \in
          CurrentSelection("size", {r.company_size : r \in Range(df.rows)})
    /\ CurrentSelection("remote", <<0, 100>>)[1] <= row.remote_ratio
    /\ row.remote_ratio <= CurrentSelection("remote", <<0, 100>>)[2]
    /\ row.employee_residence \in
          CurrentSelection("country", {r.employee_residence : r \in Range(df.rows)})
    /\ row.work_year \in
          CurrentSelection("year", {r.work_year : r \in Range(df.rows)})

C8_NormalizedReadOnly ==
    /\ Loaded =>
          /\ df = Normalize(ReadCsv(csv_file))
          /\ "remote_group" \notin Range(df.columns)
          /\ \A i \in DOMAIN df.rows : "remote_group" \notin DOMAIN df.rows[i]
    /\ Filtered =>
          \A i \in DOMAIN df.rows :
              C8_SatisfiesCurrent(df.rows[i]) <=>
                  \E k \in DOMAIN df_filtered.rows :
                      df_filtered.index[k] = df.index[i]

C8_Witness ==
    /\ Bucketed
    /\ edits < MaxEdits
    /\ Len(df.rows) = 2
    /\ Len(df_filtered.rows) = 1
    /\ "remote_group" \in Range(df_filtered.columns)

(***************************************************************************)
(* C9.  Yearly mean series: one row per work_year of the filtered view,    *)
(* in strictly ascending year order, each the arithmetic mean of           *)
(* salary_in_usd over the filtered records of that year.                   *)
(***************************************************************************)
C9_YearlyMean ==
    Stage[pc] >= 6 =>
        LET years == {df_filtered.rows[k].work_year : k \in DOMAIN df_filtered.rows}
        IN  /\ {mean_salary_year[j].work_year : j \in DOMAIN mean_salary_year} = years
            /\ Len(mean_salary_year) = Cardinality(years)
            /\ \A j \in DOMAIN mean_salary_year :
                  /\ j > 1 => mean_salary_year[j - 1].work_year
                                  < mean_salary_year[j].work_year
                  /\ IsMeanOver(mean_salary_year[j].salary_in_usd,
                                RowsWith("work_year", mean_salary_year[j].work_year))

C9_Witness ==
    /\ Stage[pc] >= 6
    /\ Len(df_filtered.rows) = 3
    /\ \E a, b, c \in DOMAIN df_filtered.rows :
          /\ df_filtered.rows[a].work_year = 2021
          /\ df_filtered.rows[a].salary_in_usd = 300
          /\ df_filtered.rows[b].work_year = 2020
          /\ df_filtered.rows[b].salary_in_usd = 100
          /\ df_filtered.rows[c].work_year = 2020
          /\ df_filtered.rows[c].salary_in_usd = 200
          /\ a < b
    /\ mean_salary_year =
          <<[work_year |-> 2020, salary_in_usd |-> [isnan |-> FALSE, num |-> 150, den |-> 1]],
            [work_year |-> 2021, salary_in_usd |-> [isnan |-> FALSE, num |-> 300, den |-> 1]]>>

(***************************************************************************)
(* C10.  Export: the CSV is written after remote_group is derived; its     *)
(* header names the source columns, country_iso3 and remote_group, and its *)
(* lines are the records of the current filtered view, in order, and no    *)
(* other.                                                                  *)
(***************************************************************************)
C10_Line(row) ==
    <<ToString(row.work_year), Blank(row.experience_level),
      Blank(row.employment_type), ToString(row.salary_in_usd),
      row.employee_residence, ToString(row.remote_ratio),
      Blank(row.company_size), Blank(row.country_iso3),
      Blank(Bucket(row.remote_ratio))>>

C10_Export ==
    pc = "done" =>
        /\ csv[1] = CsvColumns \o <<"country_iso3", "remote_group">>
        /\ Len(csv) = 1 + Cardinality({i \in DOMAIN df.rows : Satisfies(df.rows[i])})
        /\ Len(csv) = 1 + Len(df_filtered.rows)
        /\ \A k \in DOMAIN df_filtered.rows :
              /\ k > 1 => df_filtered.index[k - 1] < df_filtered.index[k]
              /\ \E i \in DOMAIN df.rows :
                    /\ df.index[i] = df_filtered.index[k]
                    /\ Satisfies(df.rows[i])
                    /\ csv[k + 1] = C10_Line(df.rows[i])

C10_Witness ==
    /\ pc = "done"
    /\ session.touched # {}
    /\ Len(df.rows) = 2
    /\ Len(csv) = 2
    /\ csv[2][9] = "26-50"
    /\ csv[2][8] = "FRA"

====
